---- MODULE Spec2Model ----
(***************************************************************************)
(* Model of Backend/main.py: the flight price prediction service.          *)
(*                                                                         *)
(* Two specifications share the module.                                    *)
(*   Spec / LiveSpec : the service. startup_event runs load_models once,   *)
(*                     then the four endpoints answer requests.            *)
(*   SpecT           : the feature transforms, as pure functions applied   *)
(*                     to input tables drawn from bounded sets.            *)
(*                                                                         *)
(* Conventions.                                                            *)
(*   - Python's None is the empty tuple; an object x held by a reference   *)
(*     is <<x>>.                                                           *)
(*   - A DataFrame is a function from column names to the sequence of the  *)
(*     column's cells.                                                     *)
(*   - A str is a TLA+ string; Python compares strs by code point, which   *)
(*     CodePoints and StrLess compute.                                     *)
(*   - The value the model returns is a float; it is counted in halves     *)
(*     (pred = 3 is 1.5) so that the rounding of the format spec ",.0f"    *)
(*     has ties to round.                                                  *)
(*   - The fitted pipeline and the regression model are opaque artifacts:  *)
(*     what transform/predict do for one request (raise, or return a       *)
(*     value) is an input of the request. The value is a finite float.     *)
(*   - An object a load returns is not None.                               *)
(*   - The request body is well typed: the framework's own validation of   *)
(*     the body, before the handler runs, is not part of the model.        *)
(***************************************************************************)
EXTENDS Integers, Sequences, FiniteSets, TLC

VARIABLES
    loadable,       \* environment: does each artifact's file load without raising
    csv,            \* environment: the table in Data/train.csv
    coerces,        \* environment: does the installed pydantic turn a float
                    \* given for a str field into its text (1.x) or reject it (2.x)
    training_data,  \* global training_data (line 172)
    preprocessor,   \* global preprocessor  (line 173)
    model,          \* global model         (line 174)
    phase,          \* "starting" | "serving" | "aborted"
    success,        \* startup_event's local: what load_models returned
    log,            \* what has been printed
    call,           \* the request being answered and what its opaque calls did
    resp,           \* the HTTP response to that request
    op,             \* SpecT: the transform applied last
    X,              \* SpecT: the transform's input table
    Y               \* SpecT: the transform's output table

service_vars == <<loadable, csv, coerces, training_data, preprocessor, model, phase,
                  success, log, call, resp>>
transform_vars == <<op, X, Y>>
vars == <<loadable, csv, coerces, training_data, preprocessor, model, phase,
          success, log, call, resp, op, X, Y>>

None == <<>>
Some(x) == <<x>>

(***************************************************************************)
(* Bounds                                                                  *)
(***************************************************************************)
\* rows of the training snapshot
MaxRows == 2
\* rows of a transform's input table
MaxLen == 2

(***************************************************************************)
(* Python values                                                           *)
(***************************************************************************)
\* an empty cell of the csv: pandas reads it as the float nan, not a str
NaN == "<float nan>"

IsStr(v) == v # NaN

\* str(v)
Str(v) == IF v = NaN THEN "nan" ELSE v

CodePoints(s) ==
  IF s = "Air Asia" THEN <<65, 105, 114, 32, 65, 115, 105, 97>> ELSE
  IF s = "Air India" THEN <<65, 105, 114, 32, 73, 110, 100, 105, 97>> ELSE
  IF s = "IndiGo" THEN <<73, 110, 100, 105, 71, 111>> ELSE
  IF s = "Delhi" THEN <<68, 101, 108, 104, 105>> ELSE
  IF s = "Kolkata" THEN <<75, 111, 108, 107, 97, 116, 97>> ELSE
  IF s = "Banglore" THEN <<66, 97, 110, 103, 108, 111, 114, 101>> ELSE
  IF s = "Cochin" THEN <<67, 111, 99, 104, 105, 110>> ELSE
  IF s = "No Info" THEN <<78, 111, 32, 73, 110, 102, 111>> ELSE
  IF s = "No info" THEN <<78, 111, 32, 105, 110, 102, 111>> ELSE
  IF s = "nan" THEN <<110, 97, 110>> ELSE
  IF s = "In-flight meal not included"
  THEN <<73, 110, 45, 102, 108, 105, 103, 104, 116, 32, 109, 101, 97, 108,
         32, 110, 111, 116, 32, 105, 110, 99, 108, 117, 100, 101, 100>>
  ELSE <<>>

\* str.__lt__: the first differing code point decides, a proper prefix is less
RECURSIVE SeqLess(_, _)
SeqLess(a, b) ==
  IF b = <<>> THEN FALSE
  ELSE IF a = <<>> THEN TRUE
  ELSE IF Head(a) # Head(b) THEN Head(a) < Head(b)
  ELSE SeqLess(Tail(a), Tail(b))

StrLess(s, t) == SeqLess(CodePoints(s), CodePoints(t))

Range(s) == {s[i] : i \in DOMAIN s}

\* Series.unique().tolist(): the distinct values in order of first appearance
RECURSIVE unique(_)
unique(s) ==
  IF s = <<>> THEN <<>>
  ELSE LET front == unique(SubSeq(s, 1, Len(s) - 1))
           last == s[Len(s)]
       IN IF last \in Range(front) THEN front ELSE Append(front, last)

\* the stable insertion of v into an ascending list
RECURSIVE Insert(_, _)
Insert(v, s) ==
  IF s = <<>> THEN <<v>>
  ELSE IF StrLess(v, Head(s)) THEN <<v>> \o s
  ELSE <<Head(s)>> \o Insert(v, Tail(s))

RECURSIVE SortStrs(_)
SortStrs(s) ==
  IF s = <<>> THEN <<>>
  ELSE Insert(s[Len(s)], SortStrs(SubSeq(s, 1, Len(s) - 1)))

Ok(v) == [ok |-> TRUE, val |-> v]
Raise(e) == [ok |-> FALSE, exc |-> e]

\* sorted(list) without the sort: the list as unique() gave it
sorted_unsorted(s) == Ok(s)

\* sorted(list): comparing a float nan with a str raises TypeError; a list of
\* fewer than two elements is never compared
sorted(s) ==
  IF Len(s) >= 2 /\ \E i \in DOMAIN s : ~IsStr(s[i])
  THEN Raise("TypeError")
  ELSE Ok(SortStrs(s))

(***************************************************************************)
(* The environment: the three files at the fixed paths                     *)
(***************************************************************************)
Artifacts == {"training_data", "preprocessor", "model"}

Columns == {"airline", "source", "destination", "additional_info"}

Rows ==
  { [airline |-> "Air India", source |-> "Delhi", destination |-> "Cochin",
     additional_info |-> "No Info"],
    [airline |-> "Air Asia", source |-> "Kolkata", destination |-> "Banglore",
     additional_info |-> "No info"],
    [airline |-> "IndiGo", source |-> "Kolkata", destination |-> "Delhi",
     additional_info |-> "In-flight meal not included"],
    [airline |-> "Air India", source |-> "Kolkata", destination |-> "Banglore",
     additional_info |-> NaN] }

SeqsUpTo(S, n) == UNION {[1..k -> S] : k \in 0..n}

\* the header of the csv: all four columns, or one of them absent
Headers == {Columns} \cup {Columns \ {c} : c \in Columns}

MkTable(cols, rows) == [c \in cols |-> [i \in 1..Len(rows) |-> rows[i][c]]]

CsvTables == {MkTable(h, rows) : h \in Headers, rows \in SeqsUpTo(Rows, MaxRows)}

EmptyTable == MkTable({}, <<>>)

NoCall == [endpoint |-> "none"]
NoResp == [endpoint |-> "none", status |-> 0]

(***************************************************************************)
(* load_models and startup_event                                           *)
(***************************************************************************)
\* print(f"Error loading models: {e}"), e being what the load of artifact a raised
ErrorLoading(a) == [line |-> "Error loading models", artifact |-> a]

\* load_models with one try block per artifact
load_models_independent ==
  LET failed == {a \in Artifacts : ~loadable[a]}
  IN [training_data |-> IF loadable["training_data"] THEN Some(csv) ELSE None,
      preprocessor  |-> IF loadable["preprocessor"] THEN Some("Pipeline") ELSE None,
      model         |-> IF loadable["model"] THEN Some("Booster") ELSE None,
      printed       |-> (IF loadable["training_data"] THEN <<>>
                         ELSE <<ErrorLoading("training_data")>>)
                        \o (IF loadable["preprocessor"] THEN <<>>
                            ELSE <<ErrorLoading("preprocessor")>>)
                        \o (IF loadable["model"] THEN <<>>
                            ELSE <<ErrorLoading("model")>>),
      raised        |-> FALSE,
      ret           |-> failed = {}]

\* load_models without its except clause
load_models_uncaught ==
  LET t == loadable["training_data"]
      p == t /\ loadable["preprocessor"]
      m == p /\ loadable["model"]
  IN [training_data |-> IF t THEN Some(csv) ELSE None,
      preprocessor  |-> IF p THEN Some("Pipeline") ELSE None,
      model         |-> IF m THEN Some("Booster") ELSE None,
      printed       |-> <<>>,
      raised        |-> ~m,
      ret           |-> TRUE]

\* load_models: the three loads in order inside one try; the first load that
\* raises ends the try, so the later assignments never run. The globals start
\* as None and are assigned only here.
load_models ==
  IF ~loadable["training_data"]
  THEN [training_data |-> None, preprocessor |-> None, model |-> None,
        printed |-> <<ErrorLoading("training_data")>>,
        raised |-> FALSE, ret |-> FALSE]
  ELSE IF ~loadable["preprocessor"]
  THEN [training_data |-> Some(csv), preprocessor |-> None, model |-> None,
        printed |-> <<ErrorLoading("preprocessor")>>,
        raised |-> FALSE, ret |-> FALSE]
  ELSE IF ~loadable["model"]
  THEN [training_data |-> Some(csv), preprocessor |-> Some("Pipeline"), model |-> None,
        printed |-> <<ErrorLoading("model")>>,
        raised |-> FALSE, ret |-> FALSE]
  ELSE [training_data |-> Some(csv), preprocessor |-> Some("Pipeline"),
        model |-> Some("Booster"),
        printed |-> <<>>, raised |-> FALSE, ret |-> TRUE]

Warning == [line |-> "Warning: Could not load models. Some endpoints may not work.",
            artifact |-> "none"]

\* startup_event: calls load_models with no handler of its own; an exception
\* out of load_models would abort the startup
startup_event ==
  /\ phase = "starting"
  /\ LET r == load_models
     IN /\ training_data' = r.training_data
        /\ preprocessor' = r.preprocessor
        /\ model' = r.model
        /\ IF r.raised
           THEN /\ phase' = "aborted"
                /\ success' = None
                /\ log' = log \o r.printed
           ELSE /\ phase' = "serving"
                /\ success' = Some(r.ret)
                /\ log' = log \o r.printed \o (IF r.ret THEN <<>> ELSE <<Warning>>)
  /\ UNCHANGED <<loadable, csv, coerces, call, resp>>
  /\ UNCHANGED transform_vars

(***************************************************************************)
(* The endpoints                                                           *)
(***************************************************************************)
HTTPException(endpoint, status_code, detail) ==
  [endpoint |-> endpoint, status |-> status_code, body |-> [detail |-> detail]]

Response(endpoint, body) == [endpoint |-> endpoint, status |-> 200, body |-> body]

\* GET /
root ==
  /\ phase = "serving"
  /\ call' = [endpoint |-> "root"]
  /\ resp' = Response("root", [message |-> "Flight Price Prediction API is running!"])
  /\ UNCHANGED <<loadable, csv, coerces, training_data, preprocessor, model, phase, success, log>>
  /\ UNCHANGED transform_vars

\* sorted(training_data.<column>.unique().tolist()); a column the table lacks
\* raises AttributeError
SortedUnique(table, column) ==
  IF column \notin DOMAIN table
  THEN Raise("AttributeError")
  ELSE sorted(unique(table[column]))

\* DropdownOptions(...): the four arguments are evaluated in order, the first
\* that raises ends the call; an element of a List[str] field that is not a
\* str is turned into its text or rejected, as the installed pydantic does
DropdownOptions(table) ==
  LET a == SortedUnique(table, "airline")
      s == SortedUnique(table, "source")
      d == SortedUnique(table, "destination")
      i == SortedUnique(table, "additional_info")
  IN IF ~a.ok THEN a
     ELSE IF ~s.ok THEN s
     ELSE IF ~d.ok THEN d
     ELSE IF ~i.ok THEN i
     ELSE IF ~coerces
             /\ \E l \in {a.val, s.val, d.val, i.val} : \E k \in DOMAIN l : ~IsStr(l[k])
     THEN Raise("ValidationError")
     ELSE Ok([airlines        |-> [k \in DOMAIN a.val |-> Str(a.val[k])],
              sources         |-> [k \in DOMAIN s.val |-> Str(s.val[k])],
              destinations    |-> [k \in DOMAIN d.val |-> Str(d.val[k])],
              additional_info |-> [k \in DOMAIN i.val |-> Str(i.val[k])]])

\* get_dropdown_options answering a failure to build the lists as predict does
get_dropdown_options_400 ==
  /\ phase = "serving"
  /\ call' = [endpoint |-> "dropdown-options"]
  /\ resp' = IF training_data = None
             THEN HTTPException("dropdown-options", 500, "Training data not loaded")
             ELSE LET r == DropdownOptions(training_data[1])
                  IN IF r.ok
                     THEN Response("dropdown-options", r.val)
                     ELSE HTTPException("dropdown-options", 400,
                                        "Error getting dropdown options: " \o r.exc)
  /\ UNCHANGED <<loadable, csv, coerces, training_data, preprocessor, model, phase, success, log>>
  /\ UNCHANGED transform_vars

\* GET /dropdown-options
get_dropdown_options ==
  /\ phase = "serving"
  /\ call' = [endpoint |-> "dropdown-options"]
  /\ resp' = IF training_data = None
             THEN HTTPException("dropdown-options", 500, "Training data not loaded")
             ELSE LET r == DropdownOptions(training_data[1])
                  IN IF r.ok
                     THEN Response("dropdown-options", r.val)
                     ELSE HTTPException("dropdown-options", 500,
                                        "Error getting dropdown options: " \o r.exc)
  /\ UNCHANGED <<loadable, csv, coerces, training_data, preprocessor, model, phase, success, log>>
  /\ UNCHANGED transform_vars

Pad3(n) ==
  IF n < 10 THEN "00" \o ToString(n)
  ELSE IF n < 100 THEN "0" \o ToString(n)
  ELSE ToString(n)

\* the digits of n with a comma between groups of three
RECURSIVE Grouped(_)
Grouped(n) ==
  IF n < 1000 THEN ToString(n)
  ELSE Grouped(n \div 1000) \o "," \o Pad3(n % 1000)

\* round-half-to-even of h halves
RoundHalfEven(h) ==
  LET q == h \div 2
  IN IF h % 2 = 0 THEN q
     ELSE IF q % 2 = 0 THEN q ELSE q + 1

\* f"{pred:,.0f}" for pred = h / 2: the sign of pred, then its magnitude
\* rounded to an integer and grouped
Format(h) ==
  IF h < 0 THEN "-" \o Grouped(RoundHalfEven(-h)) ELSE Grouped(RoundHalfEven(h))

\* what the model can return, in halves
PredValues == {-2469, -1, 0, 1, 3, 5, 1999, 2469, 24691}

\* what the opaque calls of one request do: one of them raises, or the model
\* returns pred
Outcomes ==
  [raises : {"preprocessor.transform", "xgb.DMatrix", "model.predict"}, pred : {0}]
    \cup [raises : {"none"}, pred : PredValues]

\* the guard of line 227 with "and" for "or"
ModelsNotLoaded_and == preprocessor = None /\ model = None

ModelsNotLoaded == preprocessor = None \/ model = None

\* the response of predict_flight_price. With a reference unset the handler
\* raises before the try. Inside the try, the single-row DataFrame is built
\* from the request and handed to the opaque calls; whatever they raise is
\* caught and answered 400.
PredictResponse(o) ==
  IF ModelsNotLoaded
  THEN HTTPException("predict", 500, "Models not loaded")
  ELSE IF o.raises # "none"
  THEN HTTPException("predict", 400, "Prediction error: " \o o.raises)
  ELSE Response("predict",
                [predicted_price |-> o.pred,
                 message |-> "The predicted price is " \o Format(o.pred) \o " INR"])

\* predict_flight_price that drops the model after a failed prediction
predict_flight_price_dropping ==
  /\ phase = "serving"
  /\ \E o \in Outcomes :
       /\ call' = [endpoint |-> "predict", outcome |-> o]
       /\ resp' = PredictResponse(o)
       /\ model' = IF ~ModelsNotLoaded /\ o.raises # "none" THEN None ELSE model
  /\ UNCHANGED <<loadable, csv, coerces, training_data, preprocessor, phase, success, log>>
  /\ UNCHANGED transform_vars

\* POST /predict
predict_flight_price ==
  /\ phase = "serving"
  /\ \E o \in Outcomes :
       /\ call' = [endpoint |-> "predict", outcome |-> o]
       /\ resp' = PredictResponse(o)
  /\ UNCHANGED <<loadable, csv, coerces, training_data, preprocessor, model, phase, success, log>>
  /\ UNCHANGED transform_vars

\* GET /health
health_check ==
  /\ phase = "serving"
  /\ call' = [endpoint |-> "health"]
  /\ resp' = Response("health",
                      [status |-> "healthy",
                       preprocessor_loaded |-> preprocessor # None,
                       model_loaded |-> model # None,
                       training_data_loaded |-> training_data # None])
  /\ UNCHANGED <<loadable, csv, coerces, training_data, preprocessor, model, phase, success, log>>
  /\ UNCHANGED transform_vars

(***************************************************************************)
(* The feature transforms                                                  *)
(***************************************************************************)
\* DataFrame.assign(**new): the columns of new are added, replacing a column
\* of the same name
Assign(table, new) ==
  [c \in DOMAIN table \cup DOMAIN new |-> IF c \in DOMAIN new THEN new[c] ELSE table[c]]

\* DataFrame.drop(columns=cols)
Drop(table, cols) == [c \in DOMAIN table \ cols |-> table[c]]

\* Series.astype(int) of a boolean
AsInt(b) == IF b THEN 1 ELSE 0

\* Series.between(left, right, inclusive="left")
BetweenLeft(v, left, right) == left <= v /\ v < right

\* Series.between(left, right, inclusive="both")
BetweenBoth(v, left, right) == left <= v /\ v <= right

north_cities == {"Delhi", "Kolkata", "Mumbai", "New Delhi"}

\* the column the derived column named n was made from, the derived name
\* being the column's name followed by suffix
Origin(table, n, suffix) == CHOOSE c \in DOMAIN table : c \o suffix = n

Derived(table, suffix) == {c \o suffix : c \in DOMAIN table}

\* is_north without the drop
is_north_keeping(T) ==
  Assign(T, [n \in Derived(T, "_is_north") |->
               LET col == T[Origin(T, n, "_is_north")]
               IN [i \in DOMAIN col |-> AsInt(col[i] \in north_cities)]])

is_north(T) ==
  Drop(Assign(T, [n \in Derived(T, "_is_north") |->
                    LET col == T[Origin(T, n, "_is_north")]
                    IN [i \in DOMAIN col |-> AsInt(col[i] \in north_cities)]]),
       DOMAIN T)

\* the default thresholds of part_of_day
morning == 4
noon == 12
eve == 16
night == 20

\* pd.to_datetime(text).dt.hour of a time of day "HH:MM", held as its four digits
Hour(t) == 10 * t[1] + t[2]

\* np.select of the three conditions in order, default "night"
PartOfDay(h) ==
  IF BetweenLeft(h, morning, noon) THEN "morning"
  ELSE IF BetweenLeft(h, noon, eve) THEN "afternoon"
  ELSE IF BetweenLeft(h, eve, night) THEN "evening"
  ELSE "night"

part_of_day(T) ==
  LET X_temp == Assign(T, [c \in DOMAIN T |-> [i \in DOMAIN T[c] |-> Hour(T[c][i])]])
  IN Drop(Assign(X_temp,
                 [n \in Derived(T, "_part_of_day") |->
                    LET col == X_temp[Origin(T, n, "_part_of_day")]
                    IN [i \in DOMAIN col |-> PartOfDay(col[i])]]),
          DOMAIN T)

\* the default thresholds of duration_category
short == 180
med == 400

\* duration_category with the second condition inclusive at both ends
duration_category_inclusive(T) ==
  Drop(Assign(T, [duration_cat |->
                    [i \in DOMAIN T.duration |->
                       IF T.duration[i] < short THEN "short"
                       ELSE IF BetweenBoth(T.duration[i], short, med) THEN "medium"
                       ELSE "long"]]),
       {"duration"})

\* np.select of lt(short) and between(short, med, inclusive="left"), default "long"
duration_category(T) ==
  Drop(Assign(T, [duration_cat |->
                    [i \in DOMAIN T.duration |->
                       IF T.duration[i] < short THEN "short"
                       ELSE IF BetweenLeft(T.duration[i], short, med) THEN "medium"
                       ELSE "long"]]),
       {"duration"})

\* the default threshold of is_over
value == 1000

is_over(T) ==
  Drop(Assign(T, [n \in {"duration_over_" \o ToString(value)} |->
                    [i \in DOMAIN T.duration |-> AsInt(T.duration[i] >= value)]]),
       {"duration"})

\* assign only: total_stops stays
is_direct(T) ==
  Assign(T, [is_direct_flight |->
               [i \in DOMAIN T.total_stops |-> AsInt(T.total_stops[i] = 0)]])

\* assign under the input's own name: the column is replaced in place
have_info(T) ==
  Assign(T, [additional_info |->
               [i \in DOMAIN T.additional_info |->
                  AsInt(T.additional_info[i] # "No Info")]])

\* the tables the pipeline hands to each transform
Cities == {"Delhi", "Banglore", "Cochin"}
Times == {<<0, 3, 5, 9>>, <<0, 4, 0, 0>>, <<1, 2, 0, 0>>, <<1, 5, 5, 9>>,
          <<1, 6, 0, 0>>, <<2, 0, 0, 0>>}
Durations == {100, 179, 180, 250, 399, 400, 500, 999, 1000}
Stops == {0, 1, 2}
Infos == {"No Info", "No info", "In-flight meal not included"}

\* tables of one row (a request) or more
Tables(cols, cells) ==
  {MkTable(cols, rows) : rows \in SeqsUpTo([cols -> cells], MaxLen) \ {<<>>}}

LocationTables == Tables({"source", "destination"}, Cities)
TimeTables == Tables({"dep_time"}, Times) \cup Tables({"arrival_time"}, Times)
DurationTables == Tables({"duration"}, Durations)
StopsTables == Tables({"total_stops"}, Stops)
InfoTables == Tables({"additional_info"}, Infos)

\* one action per transform: the transform applied to the input table
apply_is_north ==
  /\ X \in LocationTables
  /\ op' = "is_north"
  /\ Y' = is_north(X)
  /\ UNCHANGED X
  /\ UNCHANGED service_vars

apply_part_of_day ==
  /\ X \in TimeTables
  /\ op' = "part_of_day"
  /\ Y' = part_of_day(X)
  /\ UNCHANGED X
  /\ UNCHANGED service_vars

apply_duration_category ==
  /\ X \in DurationTables
  /\ op' = "duration_category"
  /\ Y' = duration_category(X)
  /\ UNCHANGED X
  /\ UNCHANGED service_vars

apply_is_over ==
  /\ X \in DurationTables
  /\ op' = "is_over"
  /\ Y' = is_over(X)
  /\ UNCHANGED X
  /\ UNCHANGED service_vars

apply_is_direct ==
  /\ X \in StopsTables
  /\ op' = "is_direct"
  /\ Y' = is_direct(X)
  /\ UNCHANGED X
  /\ UNCHANGED service_vars

apply_have_info ==
  /\ X \in InfoTables
  /\ op' = "have_info"
  /\ Y' = have_info(X)
  /\ UNCHANGED X
  /\ UNCHANGED service_vars

ServiceIdle ==
  /\ loadable = [a \in Artifacts |-> FALSE]
  /\ csv = EmptyTable
  /\ coerces = FALSE
  /\ training_data = None
  /\ preprocessor = None
  /\ model = None
  /\ phase = "starting"
  /\ success = None
  /\ log = <<>>
  /\ call = NoCall
  /\ resp = NoResp

InitT ==
  /\ X \in LocationTables \cup TimeTables \cup DurationTables \cup StopsTables
            \cup InfoTables
  /\ op = "none"
  /\ Y = EmptyTable
  /\ ServiceIdle

NextT ==
  \/ apply_is_north
  \/ apply_part_of_day
  \/ apply_duration_category
  \/ apply_is_over
  \/ apply_is_direct
  \/ apply_have_info

SpecT == InitT /\ [][NextT]_vars

(***************************************************************************)
(* The service                                                             *)
(***************************************************************************)
TransformIdle ==
  /\ op = "none"
  /\ X = EmptyTable
  /\ Y = EmptyTable

\* the process before startup: the globals are None (lines 172-174); the
\* files are whatever the offline workflow left at the fixed paths
Init ==
  /\ loadable \in [Artifacts -> BOOLEAN]
  /\ csv \in IF loadable["training_data"] THEN CsvTables ELSE {EmptyTable}
  /\ coerces \in BOOLEAN
  /\ training_data = None
  /\ preprocessor = None
  /\ model = None
  /\ phase = "starting"
  /\ success = None
  /\ log = <<>>
  /\ call = NoCall
  /\ resp = NoResp
  /\ TransformIdle

Next ==
  \/ startup_event
  \/ root
  \/ get_dropdown_options
  \/ predict_flight_price
  \/ health_check

Spec == Init /\ [][Next]_vars

\* the server runs the startup handler before it serves
LiveSpec == Init /\ [][Next]_vars /\ WF_vars(startup_event)

(***************************************************************************)
(* Properties of the service                                               *)
(***************************************************************************)
Loaded(a) ==
  IF a = "training_data" THEN training_data # None
  ELSE IF a = "preprocessor" THEN preprocessor # None
  ELSE model # None

\* what GET /health reported for artifact a
Reported(a) ==
  IF a = "training_data" THEN resp.body.training_data_loaded
  ELSE IF a = "preprocessor" THEN resp.body.preprocessor_loaded
  ELSE resp.body.model_loaded

\* C1: GET /health reports false for an artifact exactly when loading that
\* artifact fails; an artifact whose own load does not fail is never reported
\* false because the load of another one failed.
C1_HealthFalseIffLoadFailed ==
  resp.endpoint = "health" =>
    \A a \in Artifacts : (Reported(a) = FALSE) <=> ~loadable[a]

\* C2: POST /predict answers 500 "Models not loaded" when the preprocessor or
\* the model reference is unset, whatever the snapshot reference is and
\* whatever the request would do; otherwise 400 when one of the calls raises;
\* otherwise 200 with the price and the message. Nothing else is answered.
C2_PredictOutcomes ==
  resp.endpoint = "predict" =>
    IF preprocessor = None \/ model = None
    THEN resp.status = 500 /\ resp.body = [detail |-> "Models not loaded"]
    ELSE IF call.outcome.raises # "none"
    THEN resp.status = 400
         /\ resp.body = [detail |-> "Prediction error: " \o call.outcome.raises]
    ELSE resp.status = 200
         /\ DOMAIN resp.body = {"predicted_price", "message"}
         /\ resp.body.predicted_price = call.outcome.pred

\* a request whose preprocessing raised, answered 400 with every reference set
C2_Witness ==
  /\ resp.endpoint = "predict"
  /\ resp.status = 400
  /\ call.outcome.raises = "preprocessor.transform"
  /\ training_data # None
  /\ preprocessor # None
  /\ model # None

\* building the four lists raises: a column is absent from the snapshot, or a
\* column holds an empty cell, which is compared with a str while sorting or,
\* alone in its list, is rejected as a list element
BuildRaises(table) ==
  \E c \in Columns :
    \/ c \notin DOMAIN table
    \/ NaN \in Range(table[c]) /\ (Range(table[c]) # {NaN} \/ ~coerces)

\* C3: GET /dropdown-options answers 500 "Training data not loaded" when the
\* snapshot reference is unset, whatever the other two references are; with
\* the snapshot loaded, a failure to build the lists is answered 500 as well;
\* it never answers a client error.
C3_DropdownErrors ==
  resp.endpoint = "dropdown-options" =>
    /\ resp.status \in {200, 500}
    /\ training_data = None =>
         resp.status = 500 /\ resp.body = [detail |-> "Training data not loaded"]
    /\ training_data # None =>
         IF BuildRaises(training_data[1])
         THEN resp.status = 500 /\ resp.body # [detail |-> "Training data not loaded"]
         ELSE resp.status = 200

\* the snapshot is loaded, lacks a column, and the request is answered 500
C3_Witness ==
  /\ resp.endpoint = "dropdown-options"
  /\ resp.status = 500
  /\ training_data # None
  /\ "source" \notin DOMAIN training_data[1]
  /\ preprocessor # None
  /\ model # None

StrictlyAscending(l) ==
  \A i \in DOMAIN l : \A j \in DOMAIN l : i < j => StrLess(l[i], l[j])

ListOf(column) ==
  IF column = "airline" THEN resp.body.airlines
  ELSE IF column = "source" THEN resp.body.sources
  ELSE IF column = "destination" THEN resp.body.destinations
  ELSE resp.body.additional_info

\* C4: each of the four lists GET /dropdown-options returns is in ascending
\* order, holds no value twice, and holds exactly the values of its column of
\* the snapshot (as text, the lists being lists of str).
C4_DropdownListsSortedDistinct ==
  (resp.endpoint = "dropdown-options" /\ resp.status = 200) =>
    \A c \in Columns :
      /\ StrictlyAscending(ListOf(c))
      /\ Range(ListOf(c)) = {Str(v) : v \in Range(training_data[1][c])}

\* a snapshot whose airline column is out of order and whose source column
\* repeats a value
C4_Witness ==
  /\ resp.endpoint = "dropdown-options"
  /\ resp.status = 200
  /\ training_data[1].airline = <<"IndiGo", "Air Asia">>
  /\ training_data[1].source = <<"Kolkata", "Kolkata">>
  /\ resp.body.airlines = <<"Air Asia", "IndiGo">>
  /\ resp.body.sources = <<"Kolkata">>

\* C5: once the service is serving, no step changes training_data,
\* preprocessor or model.
C5_ReferencesFrozenAfterStartup ==
  [][phase = "serving" =>
       /\ training_data' = training_data
       /\ preprocessor' = preprocessor
       /\ model' = model
       /\ phase' = "serving"]_vars

\* a request that failed after every artifact loaded
C5_Witness ==
  /\ phase = "serving"
  /\ resp.endpoint = "predict"
  /\ resp.status = 400
  /\ model = Some("Booster")
  /\ preprocessor = Some("Pipeline")
  /\ training_data = Some(csv)

StatusEndpointsSucceed ==
  /\ phase # "aborted"
  /\ phase = "serving" => ENABLED root /\ ENABLED health_check
  /\ resp.endpoint = "root" =>
       /\ resp.status = 200
       /\ resp.body = [message |-> "Flight Price Prediction API is running!"]
  /\ resp.endpoint = "health" =>
       /\ resp.status = 200
       /\ resp.body.status = "healthy"
       /\ DOMAIN resp.body = {"status", "preprocessor_loaded", "model_loaded",
                              "training_data_loaded"}
       /\ \A a \in Artifacts : Reported(a) \in BOOLEAN

\* C6: startup completes and the service serves, whatever loads fail; while
\* it serves, GET / and GET /health can be asked and answer 200, the health
\* answer carrying status "healthy" and three booleans.
C6_StartupCompletesAndStatusEndpointsSucceed ==
  /\ <>(phase = "serving")
  /\ [](phase = "serving" => [](phase = "serving"))
  /\ []StatusEndpointsSucceed

\* the health check answered with all three loads failed
C6_Witness ==
  /\ phase = "serving"
  /\ \A a \in Artifacts : ~loadable[a] /\ ~Loaded(a)
  /\ resp.endpoint = "health"
  /\ resp.status = 200
  /\ \A a \in Artifacts : Reported(a) = FALSE

\* C7: a successful /predict carries a message "The predicted price is N INR"
\* in which N is a number >= 0, whatever the model returned.
C7_MessageNonNegative ==
  (resp.endpoint = "predict" /\ resp.status = 200) =>
    \E h \in PredValues :
      /\ h >= 0
      /\ resp.body.message =
           "The predicted price is " \o Grouped(RoundHalfEven(h)) \o " INR"

\* C10: after load_models the set references are a prefix of the load order
\* training_data, preprocessor, model; load_models returned True exactly when
\* all three are set; and when /predict would not answer "Models not loaded",
\* /dropdown-options does not answer "Training data not loaded".
C10_LoadedPrefix ==
  phase = "serving" =>
    /\ model # None => preprocessor # None
    /\ preprocessor # None => training_data # None
    /\ success = Some(TRUE) <=> \A a \in Artifacts : Loaded(a)
    /\ (preprocessor # None /\ model # None) => training_data # None
    /\ (resp.endpoint = "dropdown-options" /\ resp.status = 500
          /\ resp.body = [detail |-> "Training data not loaded"])
         => (preprocessor = None \/ model = None)

\* a proper prefix: the snapshot and the preprocessor set, the model unset
C10_Witness ==
  /\ phase = "serving"
  /\ training_data # None
  /\ preprocessor # None
  /\ model = None
  /\ success = Some(FALSE)

(***************************************************************************)
(* Properties of the transforms                                            *)
(***************************************************************************)
Category(d) ==
  IF d < 180 THEN "short"
  ELSE IF d < 400 THEN "medium"
  ELSE "long"

\* C8: duration_category maps d < 180 to "short", 180 <= d < 400 to "medium"
\* and d >= 400 to "long"; its output has the column duration_cat and not the
\* column duration.
C8_DurationCategory ==
  op = "duration_category" =>
    /\ "duration_cat" \in DOMAIN Y
    /\ "duration" \notin DOMAIN Y
    /\ Len(Y.duration_cat) = Len(X.duration)
    /\ \A i \in DOMAIN X.duration : Y.duration_cat[i] = Category(X.duration[i])
    /\ 100 \in Range(X.duration) => "short" \in Range(Y.duration_cat)
    /\ X.duration = <<180, 400>> => Y.duration_cat = <<"medium", "long">>

\* both boundaries in one table
C8_Witness ==
  /\ op = "duration_category"
  /\ X.duration = <<400, 180>>
  /\ Y = [duration_cat |-> <<"long", "medium">>]

DropsInputs == DOMAIN X \cap DOMAIN Y = {}

\* C9, as stated: after every transform no input column is left in the
\* output; for have_info, whose output column has the input's name, no raw
\* text is left in it.
C9_AllTransformsDropInputs ==
  op # "none" =>
    IF op = "have_info"
    THEN \A i \in DOMAIN Y.additional_info : Y.additional_info[i] \in {0, 1}
    ELSE DropsInputs

\* C9, amended: is_north, part_of_day, duration_category and is_over drop
\* their input columns; have_info replaces additional_info in place by a 0/1
\* flag; is_direct adds is_direct_flight and keeps total_stops as it was.
C9_TransformsDropInputsExceptIsDirect ==
  /\ op \in {"is_north", "part_of_day", "duration_category", "is_over"} =>
       DropsInputs /\ DOMAIN Y # {}
  /\ op = "have_info" =>
       /\ DOMAIN Y = {"additional_info"}
       /\ Len(Y.additional_info) = Len(X.additional_info)
       /\ \A i \in DOMAIN Y.additional_info : Y.additional_info[i] \in {0, 1}
  /\ op = "is_direct" =>
       /\ DOMAIN Y = {"total_stops", "is_direct_flight"}
       /\ Y.total_stops = X.total_stops

\* is_north applied to a table of both location columns
C9_Witness ==
  /\ op = "is_north"
  /\ DOMAIN X = {"source", "destination"}
  /\ Len(X.source) = MaxLen
  /\ DOMAIN Y = {"source_is_north", "destination_is_north"}

====
